---- MODULE Spec2Model ----
(***************************************************************************)
(* Model of GitHubAPIConsumer (src/main.py): a synchronous client that     *)
(* issues one HTTP GET per operation, classifies failures, and reshapes    *)
(* the JSON payload.  JSON values are tagged records; JSON strings are     *)
(* sequences of one-character strings so that timestamp parsing and        *)
(* formatting are computed character by character.                         *)
(***************************************************************************)
EXTENDS Integers, Sequences, FiniteSets, TLC

VARIABLES pc, op, args, response, sent, result

vars == <<pc, op, args, response, sent, result>>

----------------------------------------------------------------------------
(* JSON / Python values *)

None == [t |-> "null"]
Str(s) == [t |-> "str", v |-> s]
Num(n) == [t |-> "int", v |-> n]
Bool(b) == [t |-> "bool", v |-> b]
Obj(f) == [t |-> "obj", v |-> f]
List(s) == [t |-> "list", v |-> s]

EmptyDict == Obj([k \in {} |-> None])

\* Python truthiness, as used by `if created_at:`
Truthy(x) ==
    CASE x.t = "null" -> FALSE
      [] x.t = "str"  -> Len(x.v) > 0
      [] x.t = "int"  -> x.v # 0
      [] x.t = "bool" -> x.v
      [] x.t = "obj"  -> DOMAIN x.v # {}
      [] x.t = "list" -> Len(x.v) > 0

\* dict.get(key, default)
Get(d, key, default) == IF key \in DOMAIN d.v THEN d.v[key] ELSE default

\* outcomes of a call: a returned value or a raised exception
Return(x) == [kind |-> "return", value |-> x]
Raise(exc, msg) == [kind |-> "raise", exc |-> exc, msg |-> msg]

----------------------------------------------------------------------------
(* datetime.strptime(s, "%Y-%m-%dT%H:%M:%SZ") and                          *)
(* strftime("%d/%m/%Y %H:%M:%S") over character sequences                  *)

Digit == {"0", "1", "2", "3", "4", "5", "6", "7", "8", "9"}

DigitVal(c) ==
    CASE c = "0" -> 0 [] c = "1" -> 1 [] c = "2" -> 2 [] c = "3" -> 3
      [] c = "4" -> 4 [] c = "5" -> 5 [] c = "6" -> 6 [] c = "7" -> 7
      [] c = "8" -> 8 [] c = "9" -> 9

DigitChar(n) ==
    CASE n = 0 -> "0" [] n = 1 -> "1" [] n = 2 -> "2" [] n = 3 -> "3"
      [] n = 4 -> "4" [] n = 5 -> "5" [] n = 6 -> "6" [] n = 7 -> "7"
      [] n = 8 -> "8" [] n = 9 -> "9"

\* length of the run of digits of s that starts at position p
RECURSIVE DigitRun(_, _)
DigitRun(s, p) ==
    IF p <= Len(s) /\ s[p] \in Digit THEN 1 + DigitRun(s, p + 1) ELSE 0

\* value of the n digits of s that start at position p
RECURSIVE NumVal(_, _, _)
NumVal(s, p, n) ==
    IF n = 0 THEN 0 ELSE NumVal(s, p, n - 1) * 10 + DigitVal(s[p + n - 1])

NoMatch == [ok |-> FALSE, val |-> 0, next |-> 0]

\* the run of n digits at p with value val, against a directive that takes
\* minLen..maxLen digits with a value in lo..hi
FieldMatch(p, n, val, minLen, maxLen, lo, hi) ==
    IF n >= minLen /\ n <= maxLen /\ val >= lo /\ val <= hi
    THEN [ok |-> TRUE, val |-> val, next |-> p + n]
    ELSE NoMatch

FieldRun(s, p, n, minLen, maxLen, lo, hi) ==
    FieldMatch(p, n, NumVal(s, p, n), minLen, maxLen, lo, hi)

\* A numeric directive followed by a literal: the directive's pattern has to
\* consume the whole run of digits that starts at p.
Field(s, p, minLen, maxLen, lo, hi) ==
    FieldRun(s, p, DigitRun(s, p), minLen, maxLen, lo, hi)

\* %d also accepts a space followed by one digit 1-9
DayField(s, p) ==
    IF p + 1 <= Len(s) /\ s[p] = " " /\ s[p + 1] \in Digit \ {"0"}
       /\ DigitRun(s, p + 1) = 1
    THEN [ok |-> TRUE, val |-> DigitVal(s[p + 1]), next |-> p + 2]
    ELSE Field(s, p, 1, 2, 1, 31)

\* a literal of the format; the pattern is compiled case-insensitively
Lit(s, p, chars) == p <= Len(s) /\ s[p] \in chars

IsLeap(y) == (y % 4 = 0 /\ y % 100 # 0) \/ y % 400 = 0

DaysInMonth(y, m) ==
    IF m = 2 THEN (IF IsLeap(y) THEN 29 ELSE 28)
    ELSE IF m \in {4, 6, 9, 11} THEN 30 ELSE 31

BadTime == [ok |-> FALSE, Y |-> 0, m |-> 0, d |-> 0, H |-> 0, M |-> 0, S |-> 0]

\* the datetime constructor's range checks, after the whole string matched
MakeDatetime(fY, fm, fd, fH, fM, fS) ==
    IF fY.val >= 1 /\ fS.val <= 59 /\ fd.val <= DaysInMonth(fY.val, fm.val)
    THEN [ok |-> TRUE, Y |-> fY.val, m |-> fm.val, d |-> fd.val,
          H |-> fH.val, M |-> fM.val, S |-> fS.val]
    ELSE BadTime

\* "%Y-%m-%dT%H:%M:%SZ", one directive and the literal after it at a time
AfterSecond(s, fY, fm, fd, fH, fM, fS) ==
    IF fS.ok /\ Lit(s, fS.next, {"Z", "z"}) /\ fS.next = Len(s)
    THEN MakeDatetime(fY, fm, fd, fH, fM, fS) ELSE BadTime

AfterMinute(s, fY, fm, fd, fH, fM) ==
    IF fM.ok /\ Lit(s, fM.next, {":"})
    THEN AfterSecond(s, fY, fm, fd, fH, fM, Field(s, fM.next + 1, 1, 2, 0, 61))
    ELSE BadTime

AfterHour(s, fY, fm, fd, fH) ==
    IF fH.ok /\ Lit(s, fH.next, {":"})
    THEN AfterMinute(s, fY, fm, fd, fH, Field(s, fH.next + 1, 1, 2, 0, 59))
    ELSE BadTime

AfterDay(s, fY, fm, fd) ==
    IF fd.ok /\ Lit(s, fd.next, {"T", "t"})
    THEN AfterHour(s, fY, fm, fd, Field(s, fd.next + 1, 1, 2, 0, 23))
    ELSE BadTime

AfterMonth(s, fY, fm) ==
    IF fm.ok /\ Lit(s, fm.next, {"-"})
    THEN AfterDay(s, fY, fm, DayField(s, fm.next + 1))
    ELSE BadTime

AfterYear(s, fY) ==
    IF fY.ok /\ Lit(s, fY.next, {"-"})
    THEN AfterMonth(s, fY, Field(s, fY.next + 1, 1, 2, 1, 12))
    ELSE BadTime

strptime(s) == AfterYear(s, Field(s, 1, 4, 4, 0, 9999))

Pad2(n) == <<DigitChar(n \div 10), DigitChar(n % 10)>>

Pad4(n) == <<DigitChar(n \div 1000), DigitChar((n \div 100) % 10),
             DigitChar((n \div 10) % 10), DigitChar(n % 10)>>

strftime(dt) ==
    Pad2(dt.d) \o <<"/">> \o Pad2(dt.m) \o <<"/">> \o Pad4(dt.Y) \o <<" ">>
    \o Pad2(dt.H) \o <<":">> \o Pad2(dt.M) \o <<":">> \o Pad2(dt.S)

\* strptime raises ValueError on a string that does not parse; otherwise the
\* datetime is formatted
Reformat(dt) ==
    IF dt.ok THEN Return(Str(strftime(dt)))
    ELSE Raise("ValueError", <<"time data does not match format">>)

\* FormatValue with the test `is not None` in place of truthiness
FormatValueNotNone(raw) ==
    IF raw.t = "null" THEN Return(raw)
    ELSE IF raw.t # "str"
         THEN Raise("TypeError", <<"strptime() argument 1 must be str">>)
    ELSE Reformat(strptime(raw.v))

\* `if created_at:` and the two lines under it
FormatValue(raw) ==
    IF ~Truthy(raw) THEN Return(raw)
    ELSE IF raw.t # "str"
         THEN Raise("TypeError", <<"strptime() argument 1 must be str">>)
    ELSE Reformat(strptime(raw.v))

\* lines 162-165 (and 167-170, 195-198, 200-203): read the field, and if it
\* is truthy parse and reformat it
FormatDate(rec, key) == FormatValue(Get(rec, key, None))

----------------------------------------------------------------------------
(* The client *)

BASE_URL == "https://api.github.com"

MaxPerPage == 100

Min(a, b) == IF a < b THEN a ELSE b

NotADict == Raise("AttributeError", <<"object has no attribute 'get'">>)

\* `for x in v` over a JSON value that is no array
NotIterable == Raise("TypeError", <<"object is not iterable">>)

\* an upstream outcome: an HTTP response with a status and a JSON body, or a
\* failure below HTTP (DNS, connection, timeout)
HttpResponse(status, body) == [kind |-> "http", status |-> status, body |-> body]
TransportFailure == [kind |-> "transport", status |-> 0, body |-> None]

\* MakeRequest treating only 4xx statuses as failures
MakeRequestClientErrorsOnly(endpoint, params, resp) ==
    LET req == [method |-> "GET", url |-> <<BASE_URL>> \o endpoint,
                params |-> params]
        out ==
          IF resp.kind = "transport"
          THEN Raise("ValueError", <<"Erro na requisicao: ", "<RequestException>">>)
          ELSE IF resp.status >= 400 /\ resp.status < 500
          THEN IF resp.status = 404
               THEN Raise("ValueError", <<"Recurso nao encontrado: ">> \o endpoint)
               ELSE IF resp.status = 403
               THEN Raise("ValueError",
                          <<"Rate limit excedido. Use um token de autenticacao.">>)
               ELSE IF resp.status = 401
               THEN Raise("ValueError", <<"Token de autenticacao invalido">>)
               ELSE Raise("ValueError", <<"Erro HTTP ", ToString(resp.status),
                                          ": ", "<HTTPError>">>)
          ELSE Return(resp.body)
    IN [sent |-> <<req>>, out |-> out]

\* MakeRequest sending the request a second time after a transport failure
MakeRequestRetry(endpoint, params, resp) ==
    LET req == [method |-> "GET", url |-> <<BASE_URL>> \o endpoint,
                params |-> params]
        out ==
          IF resp.kind = "transport"
          THEN Raise("ValueError", <<"Erro na requisicao: ", "<RequestException>">>)
          ELSE IF resp.status >= 400 /\ resp.status < 600
          THEN IF resp.status = 404
               THEN Raise("ValueError", <<"Recurso nao encontrado: ">> \o endpoint)
               ELSE IF resp.status = 403
               THEN Raise("ValueError",
                          <<"Rate limit excedido. Use um token de autenticacao.">>)
               ELSE IF resp.status = 401
               THEN Raise("ValueError", <<"Token de autenticacao invalido">>)
               ELSE Raise("ValueError", <<"Erro HTTP ", ToString(resp.status),
                                          ": ", "<HTTPError>">>)
          ELSE Return(resp.body)
    IN [sent |-> IF resp.kind = "transport" THEN <<req, req>> ELSE <<req>>,
        out |-> out]

\* (the messages are written without their diacritics)
\* _make_request: one requests.get, raise_for_status, then the classification
\* of the except clauses.  `sent` is the sequence of outbound HTTP calls.
MakeRequest(endpoint, params, resp) ==
    LET req == [method |-> "GET", url |-> <<BASE_URL>> \o endpoint,
                params |-> params]
        out ==
          IF resp.kind = "transport"
          THEN Raise("ValueError", <<"Erro na requisicao: ", "<RequestException>">>)
          ELSE IF resp.status >= 400 /\ resp.status < 600
          THEN IF resp.status = 404
               THEN Raise("ValueError", <<"Recurso nao encontrado: ">> \o endpoint)
               ELSE IF resp.status = 403
               THEN Raise("ValueError",
                          <<"Rate limit excedido. Use um token de autenticacao.">>)
               ELSE IF resp.status = 401
               THEN Raise("ValueError", <<"Token de autenticacao invalido">>)
               ELSE Raise("ValueError", <<"Erro HTTP ", ToString(resp.status),
                                          ": ", "<HTTPError>">>)
          ELSE Return(resp.body)
    IN [sent |-> <<req>>, out |-> out]

\* UserSummary reading the API url in place of html_url
UserSummaryApiUrl(user) ==
    [id |-> Get(user, "id", None),
     login |-> Get(user, "login", None),
     avatar_url |-> Get(user, "avatar_url", None),
     url |-> Get(user, "url", None),
     type |-> Get(user, "type", None),
     site_admin |-> Get(user, "site_admin", Bool(FALSE))]

\* the dict appended at lines 150-157
UserSummary(user) ==
    [id |-> Get(user, "id", None),
     login |-> Get(user, "login", None),
     avatar_url |-> Get(user, "avatar_url", None),
     url |-> Get(user, "html_url", None),
     type |-> Get(user, "type", None),
     site_admin |-> Get(user, "site_admin", Bool(FALSE))]

\* TreatUsersData skipping the items that are falsy
TreatUsersDataSkipEmpty(users) ==
    IF users.t # "list" THEN NotIterable
    ELSE IF \E i \in 1..Len(users.v) : users.v[i].t # "obj"
    THEN NotADict
    ELSE Return([i \in 1..Len(SelectSeq(users.v, Truthy)) |->
                   UserSummary(SelectSeq(users.v, Truthy)[i])])

TreatUsersData(users) ==
    IF users.t # "list" THEN NotIterable
    ELSE IF \E i \in 1..Len(users.v) : users.v[i].t # "obj"
    THEN NotADict
    ELSE Return([i \in 1..Len(users.v) |-> UserSummary(users.v[i])])

\* the dict returned at lines 172-189, or the exception of the first
\* timestamp that raised
UserDetailDict(user, created_at, updated_at) ==
    IF created_at.kind = "raise" THEN created_at
    ELSE IF updated_at.kind = "raise" THEN updated_at
    ELSE Return(
        [id |-> Get(user, "id", None),
         login |-> Get(user, "login", None),
         name |-> Get(user, "name", None),
         company |-> Get(user, "company", None),
         blog |-> Get(user, "blog", None),
         location |-> Get(user, "location", None),
         email |-> Get(user, "email", None),
         bio |-> Get(user, "bio", None),
         public_repos |-> Get(user, "public_repos", Num(0)),
         public_gists |-> Get(user, "public_gists", Num(0)),
         followers |-> Get(user, "followers", Num(0)),
         following |-> Get(user, "following", Num(0)),
         created_at |-> created_at.value,
         updated_at |-> updated_at.value,
         avatar_url |-> Get(user, "avatar_url", None),
         url |-> Get(user, "html_url", None)])

TreatUserDetail(user) ==
    IF user.t # "obj" THEN NotADict
    ELSE UserDetailDict(user, FormatDate(user, "created_at"),
                        FormatDate(user, "updated_at"))

\* .get("login") on what repo.get("owner", {}) gave
LoginOf(owner) ==
    IF owner.t # "obj" THEN NotADict ELSE Return(Get(owner, "login", None))

\* OwnerLogin subscripting repo["owner"] in place of .get with a default
OwnerLoginNoDefault(repo) ==
    IF "owner" \in DOMAIN repo.v THEN LoginOf(repo.v["owner"])
    ELSE Raise("KeyError", <<"owner">>)

\* repo.get("owner", {}).get("login")
OwnerLogin(repo) == LoginOf(Get(repo, "owner", EmptyDict))

\* the dict appended at lines 205-221, or the exception raised before it
RepoDict(repo, created_at, updated_at, owner) ==
    IF created_at.kind = "raise" THEN created_at
    ELSE IF updated_at.kind = "raise" THEN updated_at
    ELSE IF owner.kind = "raise" THEN owner
    ELSE Return(
        [id |-> Get(repo, "id", None),
         name |-> Get(repo, "name", None),
         full_name |-> Get(repo, "full_name", None),
         owner |-> owner.value,
         description |-> Get(repo, "description", None),
         language |-> Get(repo, "language", None),
         stars |-> Get(repo, "stargazers_count", Num(0)),
         forks |-> Get(repo, "forks_count", Num(0)),
         watchers |-> Get(repo, "watchers_count", Num(0)),
         open_issues |-> Get(repo, "open_issues_count", Num(0)),
         created_at |-> created_at.value,
         updated_at |-> updated_at.value,
         url |-> Get(repo, "html_url", None),
         is_fork |-> Get(repo, "fork", Bool(FALSE)),
         is_archived |-> Get(repo, "archived", Bool(FALSE))])

\* one iteration of the loop at lines 194-221
RepoSummary(repo) ==
    IF repo.t # "obj" THEN NotADict
    ELSE RepoDict(repo, FormatDate(repo, "created_at"),
                  FormatDate(repo, "updated_at"), OwnerLogin(repo))

\* the loop at lines 194-221 from item i on, `treated` holding the dicts
\* appended so far; it stops at the first item that raises
RECURSIVE TreatRepositoriesLoop(_, _, _)

TreatRepositoriesStep(repos, i, treated, one) ==
    IF one.kind = "raise" THEN one
    ELSE TreatRepositoriesLoop(repos, i + 1, Append(treated, one.value))

TreatRepositoriesLoop(repos, i, treated) ==
    IF i > Len(repos.v) THEN Return(treated)
    ELSE TreatRepositoriesStep(repos, i, treated, RepoSummary(repos.v[i]))

TreatRepositoriesData(repos) ==
    IF repos.t # "list" THEN NotIterable
    ELSE TreatRepositoriesLoop(repos, 1, <<>>)

\* ValidUserSorts without the default sort
ValidUserSortsNoDefault == {"followers", "repositories", "joined"}

ValidUserSorts == {"followers", "repositories", "joined", "best-match"}

ValidRepoSorts == {"stars", "forks", "help-wanted-issues", "updated", "best-match"}

\* PerPageParam with max in place of min
PerPageParamMax(per_page) == IF per_page > MaxPerPage THEN per_page ELSE MaxPerPage

\* PerPageParam clamping from below as well
PerPageParamClamped(per_page) ==
    IF per_page < 1 THEN 1 ELSE Min(per_page, MaxPerPage)

\* min(per_page, 100)
PerPageParam(per_page) == Min(per_page, MaxPerPage)

\* a call's trace: the HTTP calls it sent and how it ended
Trace(sent_, out) == [sent |-> sent_, out |-> out]

\* lines 66-67 after the request
UsersOf(r) ==
    IF r.out.kind = "raise" THEN r
    ELSE Trace(r.sent, TreatUsersData(r.out.value))

get_users(since, per_page, resp) ==
    UsersOf(MakeRequest(<<"/users">>,
                        [since |-> since, per_page |-> PerPageParam(per_page)],
                        resp))

\* the dict built at lines 95-99 (and 140-144) under the key `key`
SearchDict(sent_, body, key, items) ==
    IF items.kind = "raise" THEN Trace(sent_, items)
    ELSE Trace(sent_, Return(
           [k \in {"total_count", "incomplete_results", key} |->
              IF k = "total_count" THEN Get(body, "total_count", Num(0))
              ELSE IF k = "incomplete_results"
                   THEN Get(body, "incomplete_results", Bool(FALSE))
              ELSE items.value]))

\* lines 94-99 after the request
SearchUsersOf(r) ==
    IF r.out.kind = "raise" THEN r
    ELSE IF r.out.value.t # "obj" THEN Trace(r.sent, NotADict)
    ELSE SearchDict(r.sent, r.out.value, "users",
                    TreatUsersData(Get(r.out.value, "items", List(<<>>))))

search_users(query, sort, order, per_page, resp) ==
    IF sort \notin ValidUserSorts
    THEN Trace(<<>>, Raise("ValueError", <<"Sort invalido. Use: ",
                           "followers, repositories, joined, best-match">>))
    ELSE SearchUsersOf(MakeRequest(<<"/search/users">>,
                         [q |-> query, sort |-> sort, order |-> order,
                          per_page |-> PerPageParam(per_page)], resp))

\* line 112 after the request
UserDetailsOf(r) ==
    IF r.out.kind = "raise" THEN r
    ELSE Trace(r.sent, TreatUserDetail(r.out.value))

get_user_details(username, resp) ==
    UserDetailsOf(MakeRequest(<<"/users/", username>>, None, resp))

\* lines 139-144 after the request
SearchRepositoriesOf(r) ==
    IF r.out.kind = "raise" THEN r
    ELSE IF r.out.value.t # "obj" THEN Trace(r.sent, NotADict)
    ELSE SearchDict(r.sent, r.out.value, "repositories",
                    TreatRepositoriesData(Get(r.out.value, "items", List(<<>>))))

search_repositories(query, sort, order, per_page, resp) ==
    IF sort \notin ValidRepoSorts
    THEN Trace(<<>>, Raise("ValueError", <<"Sort invalido. Use: ",
                           "stars, forks, help-wanted-issues, updated, best-match">>))
    ELSE SearchRepositoriesOf(MakeRequest(<<"/search/repositories">>,
                                [q |-> query, sort |-> sort, order |-> order,
                                 per_page |-> PerPageParam(per_page)], resp))

----------------------------------------------------------------------------
(* Inputs: arguments of the calls and upstream payloads *)

MaxItems == 3
NumSamples == 2
PerPageSlack == 2
MaxOmitted == 2

Restrict(f, K) == [k \in K |-> f[k]]

Absent == [t |-> "absent"]

\* the object f with key k set to v, or without key k when v is Absent
WithField(f, k, v) ==
    IF v = Absent THEN Restrict(f, DOMAIN f \ {k})
    ELSE [x \in DOMAIN f \cup {k} |-> IF x = k THEN v ELSE f[x]]

\* the subsets of keys that leave out, or that keep, at most MaxOmitted keys
KeySubsets(keys) ==
    {K \in SUBSET keys :
        Cardinality(keys \ K) <= MaxOmitted \/ Cardinality(K) <= MaxOmitted}

RECURSIVE SeqsUpTo(_, _)
SeqsUpTo(S, n) ==
    IF n = 0 THEN {<<>>}
    ELSE LET shorter == SeqsUpTo(S, n - 1)
         IN shorter \cup {Append(q, x) : q \in shorter, x \in S}

TsGood == Str(<<"2", "0", "1", "1", "-", "0", "1", "-", "2", "5", "T", "1", "8", ":", "4", "4", ":", "3", "6", "Z">>)
TsOther == Str(<<"2", "0", "2", "4", "-", "1", "2", "-", "3", "1", "T", "0", "0", ":", "0", "0", ":", "0", "0", "Z">>)
TsShort == Str(<<"2", "0", "1", "1", "-", "1", "-", "5", "T", "1", ":", "2", ":", "3", "Z">>)
TsLower == Str(<<"2", "0", "1", "1", "-", "0", "1", "-", "2", "5", "t", "1", "8", ":", "4", "4", ":", "3", "6", "z">>)
TsLeapDay == Str(<<"2", "0", "1", "2", "-", "0", "2", "-", "2", "9", "T", "2", "3", ":", "5", "9", ":", "5", "9", "Z">>)
TsDateOnly == Str(<<"2", "0", "1", "1", "-", "0", "1", "-", "2", "5">>)
TsBadMonth == Str(<<"2", "0", "1", "1", "-", "1", "3", "-", "2", "5", "T", "1", "8", ":", "4", "4", ":", "3", "6", "Z">>)
TsFeb30 == Str(<<"2", "0", "1", "1", "-", "0", "2", "-", "3", "0", "T", "0", "0", ":", "0", "0", ":", "0", "0", "Z">>)
TsTrailing == Str(<<"2", "0", "1", "1", "-", "0", "1", "-", "2", "5", "T", "1", "8", ":", "4", "4", ":", "3", "6", "Z", " ">>)
TsDisplay == Str(<<"2", "5", "/", "0", "1", "/", "2", "0", "1", "1", " ", "1", "8", ":", "4", "4", ":", "3", "6">>)
TsEmpty == Str(<<>>)

TsWellFormed == {TsGood, TsOther, TsShort, TsLower, TsLeapDay}
TsMalformed == {TsDateOnly, TsBadMonth, TsFeb30, TsTrailing, TsDisplay}
TsFalsy == {None, TsEmpty, Num(0)}
TsInputs == {Absent} \cup TsFalsy \cup TsWellFormed \cup TsMalformed \cup {Num(5)}

SampleUser(i) ==
    [id |-> Num(i),
     login |-> Str(<<"u", DigitChar(i)>>),
     avatar_url |-> Str(<<"a", DigitChar(i)>>),
     html_url |-> Str(<<"h", DigitChar(i)>>),
     type |-> Str(<<"U">>),
     site_admin |-> Bool(TRUE),
     name |-> Str(<<"n", DigitChar(i)>>),
     company |-> Str(<<"c">>),
     blog |-> Str(<<"b">>),
     location |-> Str(<<"l">>),
     email |-> Str(<<"e", "@">>),
     bio |-> Str(<<"i">>),
     public_repos |-> Num(8),
     public_gists |-> Num(3),
     followers |-> Num(20),
     following |-> Num(9),
     created_at |-> TsGood,
     updated_at |-> TsOther]

UserSummaryKeys == {"id", "login", "avatar_url", "html_url", "type", "site_admin"}

UserDetailKeys == DOMAIN SampleUser(1)

SampleRepo(i) ==
    [id |-> Num(i),
     name |-> Str(<<"r", DigitChar(i)>>),
     full_name |-> Str(<<"o", "/", "r", DigitChar(i)>>),
     owner |-> Obj([login |-> Str(<<"o">>)]),
     description |-> Str(<<"d">>),
     language |-> Str(<<"p", "y">>),
     stargazers_count |-> Num(50),
     forks_count |-> Num(6),
     watchers_count |-> Num(4),
     open_issues_count |-> Num(2),
     created_at |-> TsGood,
     updated_at |-> TsOther,
     html_url |-> Str(<<"h", DigitChar(i)>>),
     fork |-> Bool(TRUE),
     archived |-> Bool(TRUE)]

RepoKeys == DOMAIN SampleRepo(1)

OwnerInputs == {Absent, None, EmptyDict, Obj([login |-> Str(<<"o">>)]),
                Obj([login |-> None]), Str(<<"o">>), Num(3), List(<<>>)}

UserTimeKeys == {"created_at", "updated_at"}

\* raw user records: a sample record cut down to a subset of its keys other
\* than the timestamps, and the full and the empty record under every pair
\* of timestamp inputs
UserRecords ==
    {Obj(Restrict(SampleUser(1), K \cup UserTimeKeys)) :
        K \in KeySubsets(UserDetailKeys \ UserTimeKeys)}
    \cup {Obj(WithField(WithField(base, "created_at", c), "updated_at", u)) :
            base \in {SampleUser(1), Restrict(SampleUser(1), {})},
            c \in TsInputs, u \in TsInputs}

\* items of the longer lists
UserItems ==
    {Obj(Restrict(SampleUser(i), UserSummaryKeys)) : i \in 1..NumSamples}
    \cup {EmptyDict, Obj(Restrict(SampleUser(1), {"login"}))}

UserLists ==
    {List(q) : q \in SeqsUpTo(UserItems, MaxItems)}
    \cup {List(<<Obj(Restrict(SampleUser(1), K))>>) : K \in KeySubsets(UserSummaryKeys)}
    \cup {List(<<Obj(Restrict(SampleUser(1), UserSummaryKeys)), None>>)}

RepoSpecialKeys == {"created_at", "updated_at", "owner"}

RepoBases == {SampleRepo(1), Restrict(SampleRepo(1), {})}

\* raw repository records: a sample record cut down to a subset of its plain
\* keys; the full and the empty record under every pair of timestamp inputs;
\* and under every owner input
RepoRecords ==
    {Obj(Restrict(SampleRepo(1), K \cup RepoSpecialKeys)) :
        K \in KeySubsets(RepoKeys \ RepoSpecialKeys)}
    \cup {Obj(WithField(WithField(base, "created_at", c), "updated_at", u)) :
            base \in RepoBases, c \in TsInputs, u \in TsInputs}
    \cup {Obj(WithField(WithField(base, "owner", o), "updated_at", u)) :
            base \in RepoBases, o \in OwnerInputs,
            u \in {Absent, TsGood, TsDateOnly}}

RepoItems ==
    {Obj(SampleRepo(i)) : i \in 1..NumSamples}
    \cup {EmptyDict, Obj(WithField(SampleRepo(1), "updated_at", TsDateOnly))}

RepoLists ==
    {List(q) : q \in SeqsUpTo(RepoItems, MaxItems)}
    \cup {List(<<r>>) : r \in RepoRecords}

SampleBody(items) ==
    [total_count |-> Num(120), incomplete_results |-> Bool(TRUE), items |-> items]

\* search bodies: every subset of the three keys over the shorter lists, and
\* the full body over every list
SearchBodies(lists, shortLists) ==
    {Obj(Restrict(SampleBody(l), K)) :
        l \in shortLists, K \in SUBSET {"total_count", "incomplete_results", "items"}}
    \cup {Obj(SampleBody(l)) : l \in lists}

ErrorStatuses == {400, 401, 403, 404, 422, 500, 503, 599}

FailResponses ==
    {HttpResponse(st, None) : st \in ErrorStatuses} \cup {TransportFailure}

ShortUserLists == {List(q) : q \in SeqsUpTo(UserItems, 1)}
ShortRepoLists == {List(q) : q \in SeqsUpTo(RepoItems, 1)}

GetUsersResponses ==
    FailResponses \cup {HttpResponse(200, l) : l \in UserLists}
SearchUsersResponses ==
    FailResponses
    \cup {HttpResponse(200, b) : b \in SearchBodies(UserLists, ShortUserLists)}
GetUserDetailsResponses ==
    FailResponses \cup {HttpResponse(200, u) : u \in UserRecords}
SearchRepositoriesResponses ==
    FailResponses
    \cup {HttpResponse(200, b) : b \in SearchBodies(RepoLists, ShortRepoLists)}

\* a few outcomes to put against every combination of arguments
FewResponses(ok) ==
    {HttpResponse(404, None), HttpResponse(500, None), TransportFailure,
     HttpResponse(200, ok)}

PerPageInputs ==
    ((0 - PerPageSlack)..PerPageSlack) \cup {5, 30}
    \cup ((MaxPerPage - PerPageSlack)..(MaxPerPage + PerPageSlack))

SortInputs == ValidUserSorts \cup ValidRepoSorts \cup {"", "Followers", "name"}

OrderInputs == {"asc", "sideways"}

QueryInputs == {"location:brazil", "language:python"}

SinceInputs == {0, 46}

UsernameInputs == {"torvalds", "doesnotexist"}

----------------------------------------------------------------------------
(* The state machine: a driver calls one operation at a time, as main()    *)
(* does, and goes on to the next call when the operation returned or       *)
(* raised the ValueError it catches.                                       *)

NoResult == [kind |-> "none"]
NoResponse == [kind |-> "none", status |-> 0, body |-> None]

Init ==
    /\ pc = "idle"
    /\ op = "none"
    /\ args = <<>>
    /\ response = NoResponse
    /\ sent = <<>>
    /\ result = NoResult

Finish(name, a, resp, r) ==
    /\ op' = name
    /\ args' = a
    \* an outcome of the upstream exists only when a request was sent
    /\ response' = IF r.sent = <<>> THEN NoResponse ELSE resp
    /\ sent' = r.sent
    /\ result' = r.out
    /\ pc' = IF r.out.kind = "return" THEN "returned" ELSE "raised"

GetUsers ==
    /\ pc = "idle"
    /\ \/ \E since \in SinceInputs, per_page \in PerPageInputs,
             resp \in FewResponses(List(<<Obj(SampleUser(1))>>)) :
             \E r \in {get_users(since, per_page, resp)} :
                 Finish("get_users", [since |-> since, per_page |-> per_page], resp, r)
       \/ \E resp \in GetUsersResponses :
             \E r \in {get_users(0, 30, resp)} :
                 Finish("get_users", [since |-> 0, per_page |-> 30], resp, r)

SearchUsers ==
    /\ pc = "idle"
    /\ \/ \E query \in QueryInputs, sort \in SortInputs, order \in OrderInputs,
             per_page \in PerPageInputs,
             resp \in FewResponses(Obj(SampleBody(List(<<Obj(SampleUser(1))>>)))) :
             \E r \in {search_users(query, sort, order, per_page, resp)} :
                 Finish("search_users",
                    [query |-> query, sort |-> sort, order |-> order,
                     per_page |-> per_page], resp, r)
       \/ \E resp \in SearchUsersResponses :
             \E r \in {search_users("location:brazil", "followers", "desc", 5, resp)} :
                 Finish("search_users",
                    [query |-> "location:brazil", sort |-> "followers",
                     order |-> "desc", per_page |-> 5], resp, r)

GetUserDetails ==
    /\ pc = "idle"
    /\ \/ \E username \in UsernameInputs, resp \in FewResponses(Obj(SampleUser(1))) :
             \E r \in {get_user_details(username, resp)} :
                 Finish("get_user_details", [username |-> username], resp, r)
       \/ \E resp \in GetUserDetailsResponses :
             \E r \in {get_user_details("torvalds", resp)} :
                 Finish("get_user_details", [username |-> "torvalds"], resp, r)

SearchRepositories ==
    /\ pc = "idle"
    /\ \/ \E query \in QueryInputs, sort \in SortInputs, order \in OrderInputs,
             per_page \in PerPageInputs,
             resp \in FewResponses(Obj(SampleBody(List(<<Obj(SampleRepo(1))>>)))) :
             \E r \in {search_repositories(query, sort, order, per_page, resp)} :
                 Finish("search_repositories",
                    [query |-> query, sort |-> sort, order |-> order,
                     per_page |-> per_page], resp, r)
       \/ \E resp \in SearchRepositoriesResponses :
             \E r \in {search_repositories("language:python", "stars", "desc", 5, resp)} :
                 Finish("search_repositories",
                    [query |-> "language:python", sort |-> "stars",
                     order |-> "desc", per_page |-> 5], resp, r)

\* main(): `except ValueError` around each call, then the next example
Continue ==
    /\ \/ pc = "returned"
       \/ pc = "raised" /\ result.exc = "ValueError"
    /\ pc' = "idle"
    /\ op' = "none"
    /\ args' = <<>>
    /\ response' = NoResponse
    /\ sent' = <<>>
    /\ result' = NoResult

Next ==
    \/ GetUsers
    \/ SearchUsers
    \/ GetUserDetails
    \/ SearchRepositories
    \/ Continue

Spec == Init /\ [][Next]_vars

----------------------------------------------------------------------------
(* Vocabulary of the properties *)

Returned == pc = "returned"
Raised == pc = "raised"

\* a request went out and the upstream answered it with a success status
Answered == Len(sent) = 1 /\ response.kind = "http" /\ response.status < 400

\* the error taxonomy, told apart by message text
ErrorStartsWith(prefix) ==
    Raised /\ result.exc = "ValueError" /\ result.msg[1] = prefix
NotFound == ErrorStartsWith("Recurso nao encontrado: ")
RateLimited == ErrorStartsWith("Rate limit excedido. Use um token de autenticacao.")
Unauthorized == ErrorStartsWith("Token de autenticacao invalido")
OtherHttpError == ErrorStartsWith("Erro HTTP ")
TransportError == ErrorStartsWith("Erro na requisicao: ")
ValidationError == ErrorStartsWith("Sort invalido. Use: ")
MalformedTimestamp == ErrorStartsWith("time data does not match format")

PermittedSorts ==
    [search_users |-> {"followers", "repositories", "joined", "best-match"},
     search_repositories |->
        {"stars", "forks", "help-wanted-issues", "updated", "best-match"}]

SearchOps == {"search_users", "search_repositories"}
PagedOps == {"get_users", "search_users", "search_repositories"}

\* the path each operation asks for
RequestedEndpoint ==
    CASE op = "get_users" -> <<"/users">>
      [] op = "search_users" -> <<"/search/users">>
      [] op = "get_user_details" -> <<"/users/", args.username>>
      [] op = "search_repositories" -> <<"/search/repositories">>

Contains(msg, part) ==
    \E i \in 1..Len(msg) :
        i + Len(part) - 1 <= Len(msg) /\ SubSeq(msg, i, i + Len(part) - 1) = part

\* the upstream items of a list or search payload
UpstreamItems ==
    IF op = "get_users" THEN response.body.v
    ELSE Get(response.body, "items", List(<<>>)).v

ShapedItems ==
    IF op = "get_users" THEN result.value
    ELSE IF op = "search_users" THEN result.value["users"]
    ELSE result.value["repositories"]

----------------------------------------------------------------------------
(* C1: in search_users and search_repositories a sort outside the          *)
(* operation's permitted set fails with the validation error and no HTTP   *)
(* call is made; a sort inside the set never gives the validation error.   *)

C1_SortValidation ==
    op \in SearchOps =>
        /\ args.sort \notin PermittedSorts[op] => ValidationError /\ Len(sent) = 0
        /\ args.sort \in PermittedSorts[op] => ~ValidationError

C1_Witness ==
    /\ op = "search_repositories" /\ args.sort = "followers"
    /\ args.per_page > 100 /\ ValidationError /\ sent = <<>>

(* C2: a failed request is classified by its outcome alone: 404 NotFound   *)
(* naming the endpoint, 403 RateLimited, 401 Unauthorized, any other       *)
(* 4xx/5xx OtherHttpError carrying the status code, a failure without a    *)
(* status TransportError and none of the four others; no payload is        *)
(* returned in any of these cases.                                         *)

C2_Classification ==
    Len(sent) = 1 =>
        /\ response.kind = "http" /\ response.status = 404
             => NotFound /\ Contains(result.msg, RequestedEndpoint)
        /\ response.kind = "http" /\ response.status = 403 => RateLimited
        /\ response.kind = "http" /\ response.status = 401 => Unauthorized
        /\ response.kind = "http" /\ response.status >= 400
             /\ response.status \notin {401, 403, 404}
             => OtherHttpError /\ Contains(result.msg, <<ToString(response.status)>>)
        /\ response.kind = "transport"
             => TransportError /\ ~(NotFound \/ RateLimited \/ Unauthorized
                                    \/ OtherHttpError)
        /\ response.kind = "transport" \/ response.status >= 400 => ~Returned

C2_Witness ==
    /\ op = "get_user_details" /\ args.username = "doesnotexist"
    /\ response.status = 404 /\ NotFound
    /\ Contains(result.msg, <<"/users/", "doesnotexist">>)

(* C3: an operation that gets past validation sends exactly one HTTP GET,  *)
(* whether it is answered, refused or fails in transport; no operation     *)
(* sends more than one.                                                    *)

PassedValidation ==
    op \in {"get_users", "get_user_details"}
    \/ (op \in SearchOps /\ args.sort \in PermittedSorts[op])

C3_OneCall ==
    op # "none" =>
        /\ Len(sent) <= 1
        /\ PassedValidation => Len(sent) = 1 /\ sent[1].method = "GET"

C3_Witness ==
    /\ op = "search_users" /\ response.kind = "transport"
    /\ Raised /\ Len(sent) = 1 /\ sent[1].method = "GET"

(* C4: in get_users, search_users and search_repositories a per_page above *)
(* 100 is sent as exactly 100, and a per_page from 1 to 100 is sent        *)
(* unchanged.                                                              *)

C4_PerPageCap ==
    op \in PagedOps /\ Len(sent) = 1 =>
        /\ args.per_page > 100 => sent[1].params.per_page = 100
        /\ args.per_page \in 1..100 => sent[1].params.per_page = args.per_page

C4_Witness ==
    /\ op = "search_repositories" /\ args.per_page = 102
    /\ Len(sent) = 1 /\ sent[1].params.per_page = 100

(* C5 as stated: get_users clamps the page size from below as well, so for *)
(* every integer per_page, zero and negative values included, the value    *)
(* sent lies in [m, 100] for a fixed minimum m; here with the weakest      *)
(* minimum a page size can have, m = 0.                                    *)

C5_Original ==
    op = "get_users" /\ Len(sent) = 1 =>
        sent[1].params.per_page >= 0 /\ sent[1].params.per_page <= 100

(* C5 amended: get_users clamps the page size from above only: the value   *)
(* sent never exceeds 100, and a zero or negative per_page is sent         *)
(* unchanged.                                                              *)

C5_UpperBoundOnly ==
    op = "get_users" /\ Len(sent) = 1 =>
        /\ sent[1].params.per_page <= 100
        /\ args.per_page <= 0 => sent[1].params.per_page = args.per_page

C5_Witness ==
    /\ op = "get_users" /\ args.per_page < 0
    /\ Len(sent) = 1 /\ sent[1].params.per_page = args.per_page

----------------------------------------------------------------------------
(* Vocabulary of the shaping properties *)

TimeKeys == {"created_at", "updated_at"}
SummaryRawKeys == {"id", "login", "avatar_url", "html_url", "type", "site_admin"}
DetailRawKeys ==
    {"id", "login", "name", "company", "blog", "location", "email", "bio",
     "public_repos", "public_gists", "followers", "following",
     "created_at", "updated_at", "avatar_url", "html_url"}
RepoRawKeys ==
    {"id", "name", "full_name", "description", "language", "stargazers_count",
     "forks_count", "watchers_count", "open_issues_count", "created_at",
     "updated_at", "html_url", "fork", "archived"}

CountKeys ==
    {"public_repos", "public_gists", "followers", "following",
     "stargazers_count", "forks_count", "watchers_count", "open_issues_count"}
FlagKeys == {"site_admin", "fork", "archived"}

\* the key of the shaped record that carries the raw key k
ShapedKey(k) ==
    CASE k = "html_url" -> "url"
      [] k = "stargazers_count" -> "stars"
      [] k = "forks_count" -> "forks"
      [] k = "watchers_count" -> "watchers"
      [] k = "open_issues_count" -> "open_issues"
      [] k = "fork" -> "is_fork"
      [] k = "archived" -> "is_archived"
      [] OTHER -> k

ExpectedDefault(k) ==
    IF k \in CountKeys THEN Num(0)
    ELSE IF k \in FlagKeys THEN Bool(FALSE) ELSE None

DefaultsHold(raw, shaped, keys) ==
    \A k \in keys : k \notin DOMAIN raw.v => shaped[ShapedKey(k)] = ExpectedDefault(k)

Present(raw, k) == k \in DOMAIN raw.v

\* an object whose optional fields are omitted or as the upstream sends them
RecordWithOmissions(raw) ==
    /\ raw.t = "obj"
    /\ \A k \in TimeKeys : Present(raw, k) => raw.v[k] \in TsWellFormed
    /\ Present(raw, "owner") => raw.v["owner"].t = "obj"

\* the display form of the well-formed timestamp inputs
ExpectedDisplay(ts) ==
    CASE ts = TsGood -> Str(<<"2", "5", "/", "0", "1", "/", "2", "0", "1", "1", " ", "1", "8", ":", "4", "4", ":", "3", "6">>)
      [] ts = TsOther -> Str(<<"3", "1", "/", "1", "2", "/", "2", "0", "2", "4", " ", "0", "0", ":", "0", "0", ":", "0", "0">>)
      [] ts = TsShort -> Str(<<"0", "5", "/", "0", "1", "/", "2", "0", "1", "1", " ", "0", "1", ":", "0", "2", ":", "0", "3">>)
      [] ts = TsLower -> Str(<<"2", "5", "/", "0", "1", "/", "2", "0", "1", "1", " ", "1", "8", ":", "4", "4", ":", "3", "6">>)
      [] ts = TsLeapDay -> Str(<<"2", "9", "/", "0", "2", "/", "2", "0", "1", "2", " ", "2", "3", ":", "5", "9", ":", "5", "9">>)

TimestampsHandled(raw, shaped) ==
    \A k \in TimeKeys :
        /\ ~Present(raw, k) => shaped[k] = None
        /\ Present(raw, k) /\ raw.v[k] \in TsWellFormed
             => shaped[k] = ExpectedDisplay(raw.v[k])
        /\ Present(raw, k) /\ raw.v[k] \in {TsEmpty, None} => shaped[k] = raw.v[k]

HasTimestampIn(raw, values) ==
    raw.t = "obj" /\ \E k \in TimeKeys : Present(raw, k) /\ raw.v[k] \in values

\* nothing but a timestamp string can make the mapper fail on this record
OnlyTimestampsCanFail(raw) ==
    /\ raw.t = "obj"
    /\ \A k \in TimeKeys : Present(raw, k) => raw.v[k].t \in {"str", "null"}
    /\ Present(raw, "owner") => raw.v["owner"].t = "obj"

\* the raw records a call's payload carries through a timestamp mapper
TimestampedRecords ==
    IF op = "get_user_details" THEN <<response.body>> ELSE UpstreamItems

TimestampedShaped ==
    IF op = "get_user_details" THEN <<result.value>> ELSE ShapedItems

TimestampOps == {"get_user_details", "search_repositories"}

----------------------------------------------------------------------------
(* C6: for a raw user or repository object with any of its optional fields *)
(* omitted the shaping helpers return a record and do not raise: an        *)
(* omitted count is 0, an omitted flag is false, any other omitted field   *)
(* is null, and a repository without `owner` has owner login null.         *)

C6_Defaults ==
    /\ op = "get_user_details" /\ Answered /\ RecordWithOmissions(response.body)
         => Returned /\ DefaultsHold(response.body, result.value, DetailRawKeys)
    /\ op = "search_repositories" /\ Answered
         /\ (\A i \in 1..Len(UpstreamItems) : RecordWithOmissions(UpstreamItems[i]))
         => /\ Returned
            /\ \A i \in 1..Len(UpstreamItems) :
                 /\ DefaultsHold(UpstreamItems[i], ShapedItems[i], RepoRawKeys)
                 /\ ~Present(UpstreamItems[i], "owner") => ShapedItems[i].owner = None
    /\ op \in {"get_users", "search_users"} /\ Answered
         /\ (\A i \in 1..Len(UpstreamItems) : UpstreamItems[i].t = "obj")
         => /\ Returned
            /\ \A i \in 1..Len(UpstreamItems) :
                 DefaultsHold(UpstreamItems[i], ShapedItems[i], SummaryRawKeys)

C6_Witness ==
    /\ op = "search_repositories" /\ Returned
    /\ Len(UpstreamItems) = 1 /\ UpstreamItems[1] = EmptyDict
    /\ ShapedItems[1].owner = None /\ ShapedItems[1].stars = Num(0)
    /\ ShapedItems[1].is_fork = Bool(FALSE) /\ ShapedItems[1].name = None

(* C7 as stated: in the user-detail and repository mappers every present   *)
(* created_at or updated_at that does not parse as YYYY-MM-DDTHH:MM:SSZ,   *)
(* the empty string included, makes the whole operation fail with the      *)
(* malformed-timestamp error.                                              *)

C7_Original ==
    op \in TimestampOps /\ Answered
      /\ (\E i \in 1..Len(TimestampedRecords) :
            HasTimestampIn(TimestampedRecords[i], TsMalformed \cup {TsEmpty}))
      /\ (\A i \in 1..Len(TimestampedRecords) :
            OnlyTimestampsCanFail(TimestampedRecords[i]))
      => MalformedTimestamp

(* C7 amended: each of created_at and updated_at is handled on its own: an *)
(* absent field stays null, a well-formed one is reformatted to            *)
(* DD/MM/YYYY HH:MM:SS, a present empty string or null is returned as it   *)
(* is without being parsed, and a present non-empty string that does not   *)
(* parse makes the whole operation fail with the malformed-timestamp       *)
(* error; in search_repositories one such item fails the whole call.       *)

C7_Timestamps ==
    op \in TimestampOps /\ Answered =>
        /\ (\E i \in 1..Len(TimestampedRecords) :
              HasTimestampIn(TimestampedRecords[i], TsMalformed))
             => /\ Raised
                /\ (\A i \in 1..Len(TimestampedRecords) :
                      OnlyTimestampsCanFail(TimestampedRecords[i]))
                     => MalformedTimestamp
        /\ (\A i \in 1..Len(TimestampedRecords) :
              /\ OnlyTimestampsCanFail(TimestampedRecords[i])
              /\ ~HasTimestampIn(TimestampedRecords[i], TsMalformed))
             => Returned
        /\ Returned =>
             \A i \in 1..Len(TimestampedRecords) :
                 TimestampsHandled(TimestampedRecords[i], TimestampedShaped[i])

C7_Witness ==
    /\ op = "get_user_details" /\ Returned
    /\ Present(response.body, "created_at") /\ response.body.v["created_at"] = TsEmpty
    /\ result.value.created_at = TsEmpty
    /\ Present(response.body, "updated_at") /\ response.body.v["updated_at"] = TsGood
    /\ result.value.updated_at = Str(<<"2", "5", "/", "0", "1", "/", "2", "0", "1", "1", " ", "1", "8", ":", "4", "4", ":", "3", "6">>)

(* C8 as stated: the record returned by get_user_details has each of the   *)
(* six user-summary fields as a key, with the value the summary mapper     *)
(* gives it.                                                               *)

SummaryFields == {"id", "login", "avatar_url", "url", "type", "site_admin"}

C8_Original ==
    op = "get_user_details" /\ Returned =>
        \A k \in SummaryFields :
            /\ k \in DOMAIN result.value
            /\ result.value[k] = UserSummary(response.body)[k]

(* C8 amended: the record returned by get_user_details has four of the six *)
(* user-summary fields (id, login, avatar_url, url) as keys, with the      *)
(* value the summary mapper gives them; type and site_admin are not keys   *)
(* of it.                                                                  *)

C8_SharedFields ==
    op = "get_user_details" /\ Returned =>
        /\ \A k \in {"id", "login", "avatar_url", "url"} :
             /\ k \in DOMAIN result.value
             /\ result.value[k] = UserSummary(response.body)[k]
        /\ \A k \in {"type", "site_admin"} : k \notin DOMAIN result.value

C8_Witness ==
    /\ op = "get_user_details" /\ Returned
    /\ Present(response.body, "type") /\ Present(response.body, "site_admin")
    /\ Present(response.body, "html_url")
    /\ "type" \notin DOMAIN result.value
    /\ result.value.url = response.body.v["html_url"]

(* C9: a successful search_users returns the upstream total_count (0 when  *)
(* omitted), the upstream incomplete_results (false when omitted) and one  *)
(* shaped user per upstream item, in upstream order (none when items is    *)
(* omitted); get_users does the same over the upstream list.               *)

C9_SearchResult ==
    /\ op = "search_users" /\ Returned =>
         /\ result.value.total_count =
              (IF Present(response.body, "total_count")
               THEN response.body.v["total_count"] ELSE Num(0))
         /\ result.value.incomplete_results =
              (IF Present(response.body, "incomplete_results")
               THEN response.body.v["incomplete_results"] ELSE Bool(FALSE))
         /\ ~Present(response.body, "items") => result.value.users = <<>>
    /\ op \in {"search_users", "get_users"} /\ Returned =>
         /\ Len(ShapedItems) = Len(UpstreamItems)
         /\ \A i \in 1..Len(UpstreamItems) :
              ShapedItems[i] = UserSummary(UpstreamItems[i])

C9_Witness ==
    /\ op = "search_users" /\ Returned
    /\ Len(UpstreamItems) = 3 /\ Len(result.value.users) = 3
    /\ result.value.users[1].id = Num(2) /\ result.value.users[2].id = Num(1)
    /\ result.value.users[3].id = None
    /\ result.value.total_count = Num(120)

(* C10: the repository mapper is total over records whose timestamps are   *)
(* absent or well-formed: whatever the other fields hold, an `owner` that  *)
(* is null or not an object included, it returns a shaped record with      *)
(* owner login null and raises nothing.                                    *)

TimestampsFine(raw) ==
    raw.t = "obj" /\ \A k \in TimeKeys : Present(raw, k) => raw.v[k] \in TsWellFormed

C10_Total ==
    op = "search_repositories" /\ Answered
      /\ (\A i \in 1..Len(UpstreamItems) : TimestampsFine(UpstreamItems[i]))
      => /\ Returned
         /\ \A i \in 1..Len(UpstreamItems) :
              Present(UpstreamItems[i], "owner") /\ UpstreamItems[i].v["owner"].t # "obj"
                => ShapedItems[i].owner = None

====
